---- MODULE Spec2Model ----
(***************************************************************************)
(* Model of data_gen.py: generate_data() parses three command-line         *)
(* arguments, builds one key pool per table (A, then B), and then runs two *)
(* writer threads, generate_file_a and generate_file_b, that write A.txt   *)
(* and B.txt.  The main thread joins both threads before it reports        *)
(* completion.                                                             *)
(*                                                                         *)
(* Numbers given on the command line are modelled exactly: a row count is  *)
(* an integer, the uniqueness fraction is a rational num/den whose product *)
(* with a small row count is exact in binary floating point (den is a      *)
(* power of two).  Random draws are nondeterministic choices.  The value   *)
(* column of A.txt takes part in no decision of the program; it is drawn   *)
(* from ValueSamples.                                                      *)
(***************************************************************************)
EXTENDS Integers, Sequences, FiniteSets, TLC

\* Largest row count tried for a table.
MaxRows == 2

\* random.randint(1, 100) of generate_file_a.
ValLo == 1
ValHi == 100

\* The values random.randint(ValLo, ValHi) is tried with.
ValueSamples == {ValLo}

Tables == {"A", "B"}

Min(a, b) == IF a <= b THEN a ELSE b
Max(a, b) == IF a >= b THEN a ELSE b
Range(s) == {s[j] : j \in 1..Len(s)}

----------------------------------------------------------------------------
\* Command-line tokens.  kind "int": an integer literal; "dec": a decimal
\* literal that is no integer; "nan": the literal nan; "word": not a number.
IntTok(n) == [kind |-> "int", num |-> n, den |-> 1]
DecTok(n, d) == [kind |-> "dec", num |-> n, den |-> d]
NanTok == [kind |-> "nan", num |-> 0, den |-> 1]
WordTok == [kind |-> "word", num |-> 0, den |-> 1]

RowTokens == {IntTok(n) : n \in -1..MaxRows} \cup {DecTok(1, 2), WordTok}
FractionTokens ==
    {IntTok(n) : n \in -1..2}
        \cup {DecTok(-1, 2), DecTok(1, 2), DecTok(3, 4), DecTok(3, 2), NanTok, WordTok}

\* sys.argv[1:], of any length up to three.
ArgVectors ==
    {<<>>}
        \cup {<<a>> : a \in RowTokens}
        \cup {<<a, b>> : a \in RowTokens, b \in RowTokens}
        \cup {<<a, b, u>> : a \in RowTokens, b \in RowTokens,
                            u \in FractionTokens}

\* int(s) succeeds on integer literals only; float(s) on every numeric literal.
IntParses(tok) == tok.kind = "int"
FloatParses(tok) == tok.kind \in {"int", "dec", "nan"}
\* InUnitInterval without the lower bound.
InUnitIntervalNoLower(tok) == tok.kind # "nan" /\ tok.num <= tok.den

\* 0.0 <= x <= 1.0 (false for nan).
InUnitInterval(tok) == tok.kind # "nan" /\ 0 <= tok.num /\ tok.num <= tok.den

\* The try block of generate_data succeeds.
ArgsAccepted(av) ==
    /\ Len(av) >= 3
    /\ IntParses(av[1])
    /\ IntParses(av[2])
    /\ FloatParses(av[3])
    /\ InUnitInterval(av[3])

\* int(x) of a float x = n/d: truncation toward zero.
Trunc(n, d) == IF n >= 0 THEN n \div d ELSE -((-n) \div d)

\* int(total_keys_required * uniqueness_percent)
UniqueCount(total, frac) == Trunc(total * frac.num, frac.den)

\* KeyRangeMaxOf one too large.
KeyRangeMaxOffByOne(total) == total * 2 + 1

\* KeyRangeMaxOf with fewer values than rows.
KeyRangeMaxTooSmall(total) == total \div 2

KeyRangeMaxOf(total) == total * 2

\* The values random.randint(lo, hi) is tried with: the lower half of the
\* closed range lo..hi and its upper end.
RandInt(lo, hi) == {k \in lo..hi : k < lo + (hi - lo) \div 2 \/ k = hi}

\* The orders list(set) can produce.
ListOf(S) ==
    {s \in [1..Cardinality(S) -> S] : \A j, k \in 1..Cardinality(S) : s[j] = s[k] => j = k}

\* The orders random.shuffle can leave a list in.
Shuffled(s) == {[j \in 1..Len(s) |-> s[p[j]]] : p \in Permutations(1..Len(s))}

\* s[:n]
SlicePrefix(s, n) ==
    SubSeq(s, 1, IF n >= 0 THEN Min(n, Len(s)) ELSE Max(Len(s) + n, 0))

----------------------------------------------------------------------------
VARIABLES
    argv,                 \* sys.argv[1:]
    pc,                   \* position of the main thread in generate_data
    num_rows_a, num_rows_b, uniqueness_percent,
    total_keys_required, num_unique_keys, num_duplicate_keys, key_range_max,
    unique_key_set, unique_key_list, duplicates, final_key_pool,
    keys_for_a, keys_for_b,
    thread,               \* state of thread_a and thread_b
    args,                 \* args=(num_rows, keys) each thread was created with
    f,                    \* f_a and f_b: the file object of each writer
    i,                    \* rows each writer has written
    disk                  \* A.txt and B.txt

locals == <<total_keys_required, num_unique_keys, num_duplicate_keys, key_range_max,
            unique_key_set, unique_key_list, duplicates, final_key_pool>>
params == <<num_rows_a, num_rows_b, uniqueness_percent>>
keysv == <<keys_for_a, keys_for_b>>
threads == <<thread, args, f, i, disk>>
vars == <<argv, pc, params, locals, keysv, threads>>

At(l) == [at |-> l, tbl |-> "-"]
In(l, t) == [at |-> l, tbl |-> t]

\* A file that does not exist, and what an earlier run left behind.
Absent == [exists |-> FALSE, lines |-> <<>>]
Stale == [A |-> [exists |-> TRUE, lines |-> << <<0, ValHi>> >>],
          B |-> [exists |-> TRUE, lines |-> << <<0>> >>]]

Init ==
    /\ argv \in ArgVectors
    /\ pc = At("parse")
    /\ num_rows_a = 0 /\ num_rows_b = 0
    /\ uniqueness_percent = IntTok(0)
    /\ total_keys_required = 0 /\ num_unique_keys = 0
    /\ num_duplicate_keys = 0 /\ key_range_max = 0
    /\ unique_key_set = {} /\ unique_key_list = <<>>
    /\ duplicates = <<>> /\ final_key_pool = <<>>
    /\ keys_for_a = <<>> /\ keys_for_b = <<>>
    /\ thread = [t \in Tables |-> "unborn"]
    /\ args = [t \in Tables |-> [num_rows |-> 0, keys |-> <<>>]]
    /\ f = [t \in Tables |-> "none"]
    /\ i = [t \in Tables |-> 0]
    /\ disk \in [Tables -> {Absent, Stale.A, Stale.B}]
    /\ \A t \in Tables : disk[t] \in {Absent, Stale[t]}

----------------------------------------------------------------------------
\* Main thread.

RowsOf(t) == IF t = "A" THEN num_rows_a ELSE num_rows_b

\* Lines 42-57: parse and validate, or report and return.
ParseArgs ==
    /\ pc = At("parse")
    /\ IF ArgsAccepted(argv)
         THEN /\ num_rows_a' = argv[1].num
              /\ num_rows_b' = argv[2].num
              /\ uniqueness_percent' = argv[3]
              /\ pc' = In("setup", "A")
         ELSE /\ pc' = At("usage")
              /\ UNCHANGED params
    /\ UNCHANGED <<argv, locals, keysv, threads>>

\* Setup that takes the key range of table A in both blocks.
SetupRangeOfTableA(t) ==
    /\ pc = In("setup", t)
    /\ total_keys_required' = RowsOf(t)
    /\ num_unique_keys' = UniqueCount(RowsOf(t), uniqueness_percent)
    /\ num_duplicate_keys' = RowsOf(t) - UniqueCount(RowsOf(t), uniqueness_percent)
    /\ key_range_max' = KeyRangeMaxOf(num_rows_a)
    /\ unique_key_set' = {}
    /\ pc' = In("sample", t)
    /\ UNCHANGED <<argv, params, unique_key_list, duplicates, final_key_pool,
                   keysv, threads>>

\* Lines 61-70 (A), 96-105 (B).
Setup(t) ==
    /\ pc = In("setup", t)
    /\ total_keys_required' = RowsOf(t)
    /\ num_unique_keys' = UniqueCount(RowsOf(t), uniqueness_percent)
    /\ num_duplicate_keys' = RowsOf(t) - UniqueCount(RowsOf(t), uniqueness_percent)
    /\ key_range_max' = KeyRangeMaxOf(RowsOf(t))
    /\ unique_key_set' = {}
    /\ pc' = In("sample", t)
    /\ UNCHANGED <<argv, params, unique_key_list, duplicates, final_key_pool,
                   keysv, threads>>

\* Lines 71-72 (A), 106-107 (B): one iteration of the sampling loop.
Sample(t) ==
    /\ pc = In("sample", t)
    /\ Cardinality(unique_key_set) < num_unique_keys
    /\ \E r \in RandInt(0, key_range_max) :
          unique_key_set' = unique_key_set \cup {r}
    /\ UNCHANGED <<argv, pc, params, total_keys_required, num_unique_keys,
                   num_duplicate_keys, key_range_max, unique_key_list, duplicates,
                   final_key_pool, keysv, threads>>

\* Lines 74-82 (A), 109-117 (B): loop exit, list(set), and the empty-pool case.
MakeList(t) ==
    /\ pc = In("sample", t)
    /\ ~(Cardinality(unique_key_set) < num_unique_keys)
    /\ \E l \in ListOf(unique_key_set) :
          IF l # <<>>
            THEN /\ unique_key_list' = l
                 /\ pc' = In("duplicates", t)
            ELSE IF total_keys_required > 0
                   THEN /\ \E r \in RandInt(0, key_range_max) :
                              unique_key_list' = Append(l, r)
                        /\ pc' = In("duplicates", t)
                   ELSE /\ unique_key_list' = l
                        /\ pc' = At("no_rows")
    /\ UNCHANGED <<argv, params, total_keys_required, num_unique_keys,
                   num_duplicate_keys, key_range_max, unique_key_set, duplicates,
                   final_key_pool, keysv, threads>>

\* Duplicates drawn from the whole key range instead of the unique keys.
DuplicatesFromRange(t) ==
    /\ pc = In("duplicates", t)
    /\ duplicates' \in [1..num_duplicate_keys -> RandInt(0, key_range_max)]
    /\ pc' = In("combine", t)
    /\ UNCHANGED <<argv, params, total_keys_required, num_unique_keys,
                   num_duplicate_keys, key_range_max, unique_key_set, unique_key_list,
                   final_key_pool, keysv, threads>>

\* Line 85 (A), 120 (B).
Duplicates(t) ==
    /\ pc = In("duplicates", t)
    /\ duplicates' \in [1..num_duplicate_keys -> Range(unique_key_list)]
    /\ pc' = In("combine", t)
    /\ UNCHANGED <<argv, params, total_keys_required, num_unique_keys,
                   num_duplicate_keys, key_range_max, unique_key_set, unique_key_list,
                   final_key_pool, keysv, threads>>

\* Combine that shuffles the duplicates alone.
CombineDuplicatesOnly(t) ==
    /\ pc = In("combine", t)
    /\ final_key_pool' \in Shuffled(duplicates)
    /\ pc' = In("slice", t)
    /\ UNCHANGED <<argv, params, total_keys_required, num_unique_keys,
                   num_duplicate_keys, key_range_max, unique_key_set, unique_key_list,
                   duplicates, keysv, threads>>

\* Lines 88-89 (A), 123-124 (B).
Combine(t) ==
    /\ pc = In("combine", t)
    /\ final_key_pool' \in Shuffled(unique_key_list \o duplicates)
    /\ pc' = In("slice", t)
    /\ UNCHANGED <<argv, params, total_keys_required, num_unique_keys,
                   num_duplicate_keys, key_range_max, unique_key_set, unique_key_list,
                   duplicates, keysv, threads>>

\* Line 93 (A), 127 (B).
Slice(t) ==
    /\ pc = In("slice", t)
    /\ IF t = "A"
         THEN /\ keys_for_a' = SlicePrefix(final_key_pool, num_rows_a)
              /\ pc' = In("setup", "B")
              /\ UNCHANGED keys_for_b
         ELSE /\ keys_for_b' = SlicePrefix(final_key_pool, num_rows_b)
              /\ pc' = At("create")
              /\ UNCHANGED keys_for_a
    /\ UNCHANGED <<argv, params, locals, threads>>

\* Lines 130-131: the Thread objects and their arguments.
CreateThreads ==
    /\ pc = At("create")
    /\ args' = [A |-> [num_rows |-> num_rows_a, keys |-> keys_for_a],
                B |-> [num_rows |-> num_rows_b, keys |-> keys_for_b]]
    /\ thread' = [t \in Tables |-> "created"]
    /\ pc' = In("start", "A")
    /\ UNCHANGED <<argv, params, locals, keysv, f, i, disk>>

\* Lines 135-136: thread_a.start(), then thread_b.start().
Start(t) ==
    /\ pc = In("start", t)
    /\ thread' = [thread EXCEPT ![t] = "started"]
    /\ pc' = IF t = "A" THEN In("start", "B") ELSE In("join", "A")
    /\ UNCHANGED <<argv, params, locals, keysv, args, f, i, disk>>

\* Join that does not wait for the thread.
JoinNoWait(t) ==
    /\ pc = In("join", t)
    /\ pc' = IF t = "A" THEN In("join", "B") ELSE At("completed")
    /\ UNCHANGED <<argv, params, locals, keysv, threads>>

Finished(t) == thread[t] \in {"success", "error"}

\* Lines 139-142: thread_a.join(), thread_b.join(), "All tasks completed."
Join(t) ==
    /\ pc = In("join", t)
    /\ Finished(t)
    /\ pc' = IF t = "A" THEN In("join", "B") ELSE At("completed")
    /\ UNCHANGED <<argv, params, locals, keysv, threads>>

----------------------------------------------------------------------------
\* Writer threads (generate_file_a, generate_file_b).

\* The line written for row j: "k,v" in A.txt, "k" in B.txt.
Row(t, k, v) == IF t = "A" THEN <<k, v>> ELSE <<k>>

\* Open in append mode: the old content is kept.
OpenAppend(t) ==
    /\ thread[t] = "started"
    /\ f[t] = "none"
    /\ \/ /\ disk' = [disk EXCEPT ![t].exists = TRUE]
          /\ f' = [f EXCEPT ![t] = "open"]
          /\ UNCHANGED thread
       \/ /\ thread' = [thread EXCEPT ![t] = "error"]
          /\ UNCHANGED <<f, disk>>
    /\ UNCHANGED <<argv, pc, params, locals, keysv, args, i>>

\* Line 11 (A), 25 (B): open(name, "w") creates or truncates the file, or
\* raises IOError, which ends the thread (lines 16-18, 29-31).
Open(t) ==
    /\ thread[t] = "started"
    /\ f[t] = "none"
    /\ \/ /\ disk' = [disk EXCEPT ![t] = [exists |-> TRUE, lines |-> <<>>]]
          /\ f' = [f EXCEPT ![t] = "open"]
          /\ UNCHANGED thread
       \/ /\ thread' = [thread EXCEPT ![t] = "error"]
          /\ UNCHANGED <<f, disk>>
    /\ UNCHANGED <<argv, pc, params, locals, keysv, args, i>>

\* Write whose IOError stops both writers.
WriteAbortsAll(t) ==
    /\ f[t] = "open"
    /\ i[t] < args[t].num_rows
    /\ \/ /\ \E v \in ValueSamples :
                disk' = [disk EXCEPT ![t].lines =
                            Append(@, Row(t, args[t].keys[i[t] + 1], v))]
          /\ i' = [i EXCEPT ![t] = @ + 1]
          /\ UNCHANGED <<thread, f>>
       \/ /\ thread' = [u \in Tables |-> "error"]
          /\ f' = [u \in Tables |-> IF f[u] = "none" THEN "none" ELSE "closed"]
          /\ UNCHANGED <<i, disk>>
    /\ UNCHANGED <<argv, pc, params, locals, keysv, args>>

\* Lines 12-15 (A), 26-28 (B): one iteration of "for i in range(num_rows)"
\* appends a row, or raises IOError, which closes the file and ends the thread.
Write(t) ==
    /\ f[t] = "open"
    /\ i[t] < args[t].num_rows
    /\ \/ /\ \E v \in ValueSamples :
                disk' = [disk EXCEPT ![t].lines =
                            Append(@, Row(t, args[t].keys[i[t] + 1], v))]
          /\ i' = [i EXCEPT ![t] = @ + 1]
          /\ UNCHANGED <<thread, f>>
       \/ /\ thread' = [thread EXCEPT ![t] = "error"]
          /\ f' = [f EXCEPT ![t] = "closed"]
          /\ UNCHANGED <<i, disk>>
    /\ UNCHANGED <<argv, pc, params, locals, keysv, args>>

\* End of the with block after the last row: the file is closed and the thread
\* reports success (line 19, 32), or closing raises IOError.
Close(t) ==
    /\ f[t] = "open"
    /\ ~(i[t] < args[t].num_rows)
    /\ f' = [f EXCEPT ![t] = "closed"]
    /\ \/ thread' = [thread EXCEPT ![t] = "success"]
       \/ thread' = [thread EXCEPT ![t] = "error"]
    /\ UNCHANGED <<argv, pc, params, locals, keysv, args, i, disk>>

----------------------------------------------------------------------------
MainStep ==
    \/ ParseArgs
    \/ \E t \in Tables : Setup(t)
    \/ \E t \in Tables : Sample(t)
    \/ \E t \in Tables : MakeList(t)
    \/ \E t \in Tables : Duplicates(t)
    \/ \E t \in Tables : Combine(t)
    \/ \E t \in Tables : Slice(t)
    \/ CreateThreads
    \/ \E t \in Tables : Start(t)
    \/ \E t \in Tables : Join(t)

WriterStep ==
    \/ \E t \in Tables : Open(t)
    \/ \E t \in Tables : Write(t)
    \/ \E t \in Tables : Close(t)

Next == MainStep \/ WriterStep

Spec == Init /\ [][Next]_vars

\* The steps of one writer thread.
Writer(t) == Open(t) \/ Write(t) \/ Close(t)

\* The runs tried for termination: those of Init in which the two row counts
\* add up to at most MaxRows + 1.
FairInit ==
    /\ Init
    /\ (Len(argv) >= 2 /\ IntParses(argv[1]) /\ IntParses(argv[2]))
          => argv[1].num + argv[2].num <= MaxRows + 1

\* The main thread and each started thread keep being scheduled, and the
\* sampling loop does not draw keys it already has for ever: a step that
\* changes the state is taken whenever one stays possible.
FairSpec ==
    /\ FairInit /\ [][Next]_vars
    /\ WF_vars(MainStep)
    /\ \A t \in Tables : WF_vars(Writer(t))

----------------------------------------------------------------------------
\* What the properties speak of, taken from the command line itself.

\* The run is given two row counts >= 0 and a fraction in [0,1].
ValidInput ==
    /\ Len(argv) = 3
    /\ argv[1].kind = "int" /\ argv[1].num >= 0
    /\ argv[2].kind = "int" /\ argv[2].num >= 0
    /\ argv[3].kind \in {"int", "dec"}
    /\ 0 <= argv[3].num /\ argv[3].num <= argv[3].den

RowCount(t) == IF t = "A" THEN argv[1].num ELSE argv[2].num
Fraction == argv[3]
\* floor(row_count * uniqueness_fraction)
FloorUnique(t) == (RowCount(t) * Fraction.num) \div Fraction.den
Other(t) == IF t = "A" THEN "B" ELSE "A"

\* generate_data has returned (line 57, line 82 or 117, or after line 142).
Returned == pc.at \in {"usage", "no_rows", "completed"}
NoIOFailure == \A t \in Tables : thread[t] # "error"

KeysFor(t) == IF t = "A" THEN keys_for_a ELSE keys_for_b
\* keys_for_a (keys_for_b) has been assigned.
KeysAssigned(t) ==
    \/ pc.at \in {"create", "start", "join", "completed"}
    \/ t = "A" /\ pc.tbl = "B"
    \/ t = "A" /\ pc.at = "no_rows" /\ num_rows_a > 0
\* The keys of the lines of a file.
FileKeys(t) == [j \in 1..Len(disk[t].lines) |-> disk[t].lines[j][1]]

\* C1: after a run on valid input without I/O failure, A.txt holds exactly
\* row_count_a lines and B.txt exactly row_count_b lines.
C1_ExactLineCounts ==
    (Returned /\ ValidInput /\ NoIOFailure)
        => \A t \in Tables : disk[t].exists /\ Len(disk[t].lines) = RowCount(t)

\* C2: the keys assigned to a table of N > 0 rows, and the keys of its file once
\* written, have exactly floor(N*f) distinct values, or 1 when floor(N*f) = 0.
C2_DistinctKeys ==
    \A t \in Tables :
        LET expected == IF FloorUnique(t) = 0 THEN 1 ELSE FloorUnique(t) IN
        (ValidInput /\ RowCount(t) > 0 /\ KeysAssigned(t))
            => /\ Len(KeysFor(t)) = RowCount(t)
               /\ Cardinality(Range(KeysFor(t))) = expected
               /\ thread[t] = "success" => Cardinality(Range(FileKeys(t))) = expected

C2_Witness ==
    /\ pc = At("completed")
    /\ \A t \in Tables : thread[t] = "success"
    /\ RowCount("A") = 2 /\ Fraction = IntTok(1) /\ RowCount("B") = 2
    /\ Cardinality(Range(FileKeys("A"))) = 2

\* C3: with row_count_a = 0 the run leaves A.txt existing and empty.
C3_EmptyTableA ==
    (Returned /\ ValidInput /\ RowCount("A") = 0 /\ thread["A"] # "error")
        => disk["A"].exists /\ disk["A"].lines = <<>>

\* C4: what happens to a table's file does not depend on the other table's row
\* count: a table of N > 0 rows is written, with N rows, as it is when the other
\* table has rows, whatever the other table's row count.
C4_IndependentOfOther ==
    (Returned /\ ValidInput)
        => \A t \in Tables :
              RowCount(t) > 0
                  => /\ Finished(t)
                     /\ thread[t] = "success" => Len(disk[t].lines) = RowCount(t)

\* C5: with a fraction outside [0,1], or a row count or the fraction missing or
\* not a number, the run goes from the start to the usage message and returns:
\* no file is opened or changed, no key pool is built, no thread is started.
ArgsRejectedByClaim ==
    \/ Len(argv) < 3
    \/ \E j \in 1..3 : argv[j].kind = "word"
    \/ argv[3].kind \in {"int", "dec"} /\ (argv[3].num < 0 \/ argv[3].num > argv[3].den)

C5_InvalidArgsTouchNothing ==
    [][ArgsRejectedByClaim
          => /\ pc' = At("usage")
             /\ UNCHANGED <<disk, f, thread, unique_key_set, unique_key_list,
                            final_key_pool, keysv>>]_vars

C5_Witness ==
    /\ pc = At("usage")
    /\ Len(argv) = 3 /\ argv[3] = DecTok(3, 2)
    /\ disk["A"] = Stale.A /\ disk["B"] = Stale.B

\* C6: "All tasks completed." is printed only when both writer threads have
\* finished, each with success or with a reported I/O error.
C6_CompletedAfterBoth ==
    pc = At("completed") => \A t \in Tables : thread[t] \in {"success", "error"}

C6_Witness ==
    /\ pc = At("completed")
    /\ thread["A"] = "error"
    /\ thread["B"] = "success"

\* C7: a step in which one writer fails changes nothing of the other writer,
\* and at completion every writer that did not fail itself has written its
\* whole file, also when the other writer failed.
C7_FailureIsLocal ==
    /\ [][\A t \in Tables :
            (thread[t] # "error" /\ thread'[t] = "error")
                => /\ thread'[Other(t)] = thread[Other(t)]
                   /\ f'[Other(t)] = f[Other(t)]
                   /\ i'[Other(t)] = i[Other(t)]
                   /\ disk'[Other(t)] = disk[Other(t)]]_vars
    /\ [](pc = At("completed")
            => \A t \in Tables :
                  (thread[Other(t)] = "error" /\ thread[t] # "error")
                      => /\ thread[t] = "success"
                         /\ disk[t].exists
                         /\ Len(disk[t].lines) = RowCount(t))

C7_Witness ==
    /\ pc = At("completed")
    /\ thread["A"] = "error" /\ f["A"] = "closed" /\ i["A"] = 1
    /\ thread["B"] = "success" /\ Len(disk["B"].lines) = 2 /\ RowCount("B") = 2

\* C8: once a writer has opened its file, the file holds exactly the rows written
\* so far, which carry the first keys of the table's key sequence in order; a
\* step either leaves the file alone or appends one row, and a failed writer
\* never touches it again.
C8_ValidPrefix ==
    /\ [](\A t \in Tables :
            f[t] # "none"
                => /\ disk[t].exists
                   /\ i[t] <= RowCount(t)
                   /\ FileKeys(t) = SubSeq(KeysFor(t), 1, i[t]))
    /\ [][\A t \in Tables :
            /\ f[t] # "none"
                  => \/ disk'[t] = disk[t]
                     \/ /\ Len(disk'[t].lines) = Len(disk[t].lines) + 1
                        /\ SubSeq(disk'[t].lines, 1, Len(disk[t].lines)) = disk[t].lines
            /\ thread[t] = "error" => (thread'[t] = "error" /\ disk'[t] = disk[t])]_vars

C8_Witness ==
    /\ thread["A"] = "error" /\ f["A"] = "closed"
    /\ RowCount("A") = 2 /\ i["A"] = 1
    /\ Len(disk["A"].lines) = 1
    /\ disk["A"].lines[1][1] = keys_for_a[1]

\* C9: every key of a table, as assigned and as written, lies in
\* 0 .. 2 * row_count of that table.
C9_KeysInRange ==
    \A t \in Tables :
        /\ \A k \in Range(KeysFor(t)) : 0 <= k /\ k <= 2 * RowCount(t)
        /\ f[t] # "none" => \A k \in Range(FileKeys(t)) : 0 <= k /\ k <= 2 * RowCount(t)

C9_Witness ==
    /\ pc = At("completed")
    /\ Fraction = IntTok(0)
    /\ RowCount("A") = 2 /\ thread["A"] = "success"
    /\ FileKeys("A") = <<4, 4>>
    /\ RowCount("B") = 1 /\ thread["B"] = "success"
    /\ FileKeys("B") = <<2>>

\* C10 as stated: for a table of N > 0 rows the unique keys followed by the
\* duplicate draws have length N and the number of duplicate draws is
\* N - |unique keys|, also when floor(N*f) = 0.
C10_PoolLengthAsStated ==
    \A t \in Tables :
        (pc = In("slice", t) /\ ValidInput /\ RowCount(t) > 0)
            => /\ Len(final_key_pool) = RowCount(t)
               /\ num_duplicate_keys = RowCount(t) - Len(unique_key_list)

\* C10 amended: that holds when floor(N*f) >= 1; when floor(N*f) = 0 the unique
\* keys are the one forced key, there are N duplicate draws and N + 1 keys in
\* all, of which the slice keeps N.
C10_PoolLength ==
    \A t \in Tables :
        (pc = In("slice", t) /\ ValidInput /\ RowCount(t) > 0)
            => /\ Len(duplicates) = num_duplicate_keys
               /\ Len(final_key_pool) = Len(unique_key_list) + num_duplicate_keys
               /\ IF FloorUnique(t) >= 1
                    THEN /\ Len(unique_key_list) = FloorUnique(t)
                         /\ num_duplicate_keys = RowCount(t) - Len(unique_key_list)
                         /\ Len(final_key_pool) = RowCount(t)
                    ELSE /\ Len(unique_key_list) = 1
                         /\ num_duplicate_keys = RowCount(t)
                         /\ Len(final_key_pool) = RowCount(t) + 1
               /\ Len(SlicePrefix(final_key_pool, RowCount(t))) = RowCount(t)

C10_Witness ==
    /\ pc = In("slice", "B")
    /\ RowCount("B") = 1 /\ Fraction = DecTok(1, 2)
    /\ Len(unique_key_list) = 1
    /\ Len(final_key_pool) = 2

\* The unique keys of table t held by the main thread: unique_key_set while the
\* block of t samples, unique_key_list (with the forced key) from then on.
UniquePoolOf(t) ==
    IF pc = In("sample", t) THEN unique_key_set
    ELSE IF pc \in {In("duplicates", t), In("combine", t), In("slice", t)}
           THEN unique_key_set \cup Range(unique_key_list)
           ELSE {}

\* C11 as stated: the keys of a table's unique pool lie in the half-open range
\* 0 .. 2*row_count - 1, none equals 2*row_count.
C11_HalfOpenAsStated ==
    \A t \in Tables : \A k \in UniquePoolOf(t) : 0 <= k /\ k < 2 * RowCount(t)

\* C11 amended: the keys of a table's unique pool lie in the closed range
\* 0 .. 2*row_count of that table; 2*row_count itself can be drawn.
C11_ClosedRange ==
    \A t \in Tables : \A k \in UniquePoolOf(t) : 0 <= k /\ k <= 2 * RowCount(t)

C11_Witness ==
    /\ pc = In("duplicates", "A")
    /\ RowCount("A") = 2 /\ Fraction = IntTok(1)
    /\ 2 * RowCount("A") \in unique_key_set
    /\ Cardinality(Range(unique_key_list)) = 2

\* C12: every fairly scheduled run with fair sampling terminates: each sampling
\* loop is left, each started writer finishes with success or with an I/O
\* error, and generate_data returns (usage, "No rows to generate." or
\* "All tasks completed.").
C12_Terminates ==
    /\ \A t \in Tables : (pc = In("sample", t)) ~> (pc # In("sample", t))
    /\ \A t \in Tables : (thread[t] = "started") ~> (thread[t] \in {"success", "error"})
    /\ <>Returned

C12_Witness ==
    /\ pc = At("completed")
    /\ RowCount("A") = 1 /\ RowCount("B") = 2 /\ Fraction = IntTok(1)
    /\ Cardinality(unique_key_set) = 2
    /\ thread["A"] = "success" /\ thread["B"] = "error" /\ i["B"] = 1

====
